---- MODULE Spec2Model ----
(***************************************************************************)
(* Item CRUD backend of the landing page, in its three deployments:        *)
(*   "file"  src/server/server.js 1-239   express + multer + items.json    *)
(*   "supa"  src/server/server.js 241-600 object storage + SQL table       *)
(*   "blob"  src/unnamed/part_000         blob store + SQL table           *)
(* A state is the content of the item records and of the Media Store of    *)
(* one deployment, together with the last request, its response and the    *)
(* content before that request.  Every step is one whole request, except   *)
(* in the specifications of overlapping requests, where calls holds the    *)
(* requests in flight and a step is what one of them does between two      *)
(* points at which it yields to the event loop.                            *)
(*                                                                         *)
(* Data conventions.  A JS string is a sequence of one-character strings   *)
(* ("" is <<>>); a missing body field and "" are both <<>> (the code only  *)
(* ever tests them with ||).  A JS object is a record that has exactly     *)
(* the fields that are set.  Item ids and storage keys (file name,         *)
(* object path, blob key) are fresh integers; a url is a tuple.  A MIME    *)
(* type is the pair <<type, subtype>>.  File sizes are in MiB.             *)
(* Timestamps (createdAt, created_at) are not modelled: the item           *)
(* sequence is kept in insertion order.                                    *)
(***************************************************************************)
EXTENDS Integers, Sequences, FiniteSets, TLC

VARIABLES variant, items, store, nextId, nextKey, req, res,
          preItems, preStore, deleted, steps, norm, calls

vars == <<variant, items, store, nextId, nextKey, req, res,
          preItems, preStore, deleted, steps, norm, calls>>

(* ------------------------------ bounds --------------------------------- *)
\* number of requests in a run
MaxSteps == 3
\* number of rows of the seed array that are modelled
NumSeed == 1

(* ----------------------------- constants ------------------------------- *)
\* multer limits.fileSize, in MiB
FILE_SIZE_LIMIT == 500
\* busboy limits.fileSize of the hosted variants, in MiB
MAX_FILE_SIZE == 40
DEFAULT_WHATS_MESSAGE == <<"O", "l", "a">>
DEFAULT_TITLE == <<"N", "o", "v", "o">>
DEFAULT_DESC == <<"M", "a", "i", "s">>
\* an id that never names an item (generated ids are positive)
UnknownId == 0 - 1
\* a truthy JS value that is not a string (a number, an object)
NotAString == <<"[object]">>

(* ------------------------------ helpers -------------------------------- *)
Has(r, f) == f \in DOMAIN r
\* r.f = v
Put(r, f, v) == (f :> v) @@ r
\* a || b on strings
Or(a, b) == IF a # <<>> THEN a ELSE b
Reverse(s) == [i \in 1..Len(s) |-> s[Len(s) + 1 - i]]

RECURSIVE trimStart(_)
trimStart(s) == IF s # <<>> /\ Head(s) = " " THEN trimStart(Tail(s)) ELSE s
RECURSIVE trimEnd(_)
trimEnd(s) ==
    IF s # <<>> /\ s[Len(s)] = " " THEN trimEnd(SubSeq(s, 1, Len(s) - 1)) ELSE s
\* String.prototype.trim
trim(s) == trimEnd(trimStart(s))

\* mimetype.startsWith("video/")
startsWithVideo(mime) == mime[1] = "video"
MediaType(mime) == IF startsWithVideo(mime) THEN "video" ELSE "image"

(* ------------------------------ requests ------------------------------- *)
Img(size) == [mimetype |-> <<"image", "png">>, size |-> size]
Vid(size) == [mimetype |-> <<"video", "mp4">>, size |-> size]
FileLists ==
    { <<>>, <<Img(1)>>, <<Vid(1), Img(1)>>, <<Img(100)>>, <<Vid(1), Img(600)>> }
\* a client-supplied media descriptor of a JSON body
Descriptor == [type |-> "image", url |-> <<"http", 0>>]
TextInputs ==
    { [title |-> <<>>, desc |-> <<>>, whatsappMessage |-> <<>>],
      [title |-> <<" ", "a">>, desc |-> <<"b", " ">>, whatsappMessage |-> <<"c">>] }
\* multipart bodies carry files and no media array; JSON bodies carry no file
Payloads ==
    { [json |-> FALSE, files |-> f, mediaIsArray |-> FALSE, media |-> <<>>] :
        f \in FileLists }
    \cup
    { [json |-> TRUE, files |-> <<>>, mediaIsArray |-> FALSE, media |-> <<>>],
      [json |-> TRUE, files |-> <<>>, mediaIsArray |-> TRUE, media |-> <<>>],
      [json |-> TRUE, files |-> <<>>, mediaIsArray |-> TRUE,
       media |-> <<Descriptor>>] }
Bodies == { t @@ p : t \in TextInputs, p \in Payloads }
NoBody ==
    [title |-> <<>>, desc |-> <<>>, whatsappMessage |-> <<>>, json |-> FALSE,
     files |-> <<>>, mediaIsArray |-> FALSE, media |-> <<>>]
\* 0 is a request path without an id
TargetIds == (0 .. (nextId - 1)) \cup {UnknownId}

Response(status, kind, body) == [status |-> status, kind |-> kind, body |-> body]
Outcome(its, st, nid, nk, r) ==
    [items |-> its, store |-> st, nextId |-> nid, nextKey |-> nk, res |-> r]

Find(its, id) == {i \in 1..Len(its) : its[i].id = id}
Remove(its, id) == SelectSeq(its, LAMBDA e : e.id # id)

(* ===================== file-backed variant (express) =================== *)
\* normalizeItem without the guard on an existing media list: the legacy
\* entry is added on every call
normalizeItem_Append(item) ==
    LET hasUrl == Has(item, "url") /\ item.url # <<>>
        old == IF Has(item, "media") THEN item.media ELSE <<>>
        entry == [type |-> IF Has(item, "type") /\ item.type # "" THEN item.type
                           ELSE "image",
                  url |-> item.url]
        withMedia == Put(item, "media", IF hasUrl THEN Append(old, entry) ELSE old)
        noMessage == \/ ~Has(withMedia, "whatsappMessage")
                     \/ withMedia.whatsappMessage = <<>>
                     \/ withMedia.whatsappMessage = NotAString
    IN  IF noMessage THEN Put(withMedia, "whatsappMessage", DEFAULT_WHATS_MESSAGE)
        ELSE withMedia

\* normalizeItem: a media value that is not an array is a missing one
normalizeItem(item) ==
    LET noMedia == ~Has(item, "media") \/ item.media = <<>>
        hasUrl == Has(item, "url") /\ item.url # <<>>
        legacyType == IF Has(item, "type") /\ item.type # "" THEN item.type
                      ELSE "image"
        entry0 == [type |-> legacyType, url |-> item.url]
        entry == IF Has(item, "filename") THEN Put(entry0, "filename", item.filename)
                 ELSE entry0
        withMedia == IF noMedia
                     THEN Put(item, "media", IF hasUrl THEN <<entry>> ELSE <<>>)
                     ELSE item
        noMessage == \/ ~Has(withMedia, "whatsappMessage")
                     \/ withMedia.whatsappMessage = <<>>
                     \/ withMedia.whatsappMessage = NotAString
    IN  IF noMessage THEN Put(withMedia, "whatsappMessage", DEFAULT_WHATS_MESSAGE)
        ELSE withMedia

toItemResponse(item) ==
    LET normalized == normalizeItem(item)
    IN  [id |-> normalized.id,
         title |-> normalized.title,
         desc |-> normalized.desc,
         whatsappMessage |-> normalized.whatsappMessage,
         media |-> [i \in 1..Len(normalized.media) |->
                      [type |-> normalized.media[i].type,
                       url |-> normalized.media[i].url]]]

\* multer: a file over limits.fileSize fails the upload with a MulterError
uploadTooLarge(files) == \E i \in 1..Len(files) : files[i].size > FILE_SIZE_LIMIT
\* diskStorage: the i-th file is written under the fresh name k0 + i - 1
uploadedNames(files, k0) == {k0 + i - 1 : i \in 1..Len(files)}
\* files.map(...) of the POST and PUT handlers
fileMedia(files, k0) ==
    [i \in 1..Len(files) |->
        [type |-> MediaType(files[i].mimetype),
         url |-> <<"/uploads/", k0 + i - 1>>,
         filename |-> k0 + i - 1]]
\* the fs.unlinkSync loop over the old media
unlinkMedia(st, media) ==
    st \ {media[i].filename : i \in {j \in 1..Len(media) : Has(media[j], "filename")}}

\* the error-handling middleware on a MulterError; multer has removed
\* the files of the failed upload
uploadError(its, st, nid, nk) ==
    Outcome(its, st, nid, nk, Response(400, "error", <<>>))

\* app.post("/api/items") without the "No files" rejection
postItems_NoFileCheck(its, st, nid, nk, body) ==
    LET files == body.files
        media == fileMedia(files, nk)
        newItem == [id |-> nid,
                    title |-> trim(Or(body.title, DEFAULT_TITLE)),
                    desc |-> trim(Or(body.desc, DEFAULT_DESC)),
                    whatsappMessage |->
                        trim(Or(body.whatsappMessage, DEFAULT_WHATS_MESSAGE)),
                    media |-> media,
                    type |-> IF Len(media) > 0 THEN media[1].type ELSE "image",
                    url |-> IF Len(media) > 0 THEN media[1].url ELSE <<>>]
    IN  IF uploadTooLarge(files) THEN uploadError(its, st, nid, nk)
        ELSE Outcome(Append(its, newItem), st \cup uploadedNames(files, nk),
                     nid + 1, nk + Len(files),
                     Response(200, "item", <<toItemResponse(newItem)>>))

\* app.post("/api/items")
postItems(its, st, nid, nk, body) ==
    LET files == body.files
        title == trim(Or(body.title, DEFAULT_TITLE))
        desc == trim(Or(body.desc, DEFAULT_DESC))
        whatsappMessage == trim(Or(body.whatsappMessage, DEFAULT_WHATS_MESSAGE))
        media == fileMedia(files, nk)
        newItem == [id |-> nid, title |-> title, desc |-> desc,
                    whatsappMessage |-> whatsappMessage, media |-> media,
                    type |-> media[1].type, url |-> media[1].url]
    IN  IF uploadTooLarge(files) THEN uploadError(its, st, nid, nk)
        ELSE IF Len(files) = 0
        THEN Outcome(its, st, nid, nk, Response(400, "error", <<>>))
        ELSE Outcome(Append(its, newItem), st \cup uploadedNames(files, nk),
                     nid + 1, nk + Len(files),
                     Response(200, "item", <<toItemResponse(newItem)>>))

\* the body of app.put("/api/items/:id") once the item is found
putItem(item0, st, body, nk) ==
    LET item == normalizeItem(item0)
        files == body.files
        edited == [item EXCEPT
                     !.title = trim(Or(body.title, item.title)),
                     !.desc = trim(Or(body.desc, item.desc)),
                     !.whatsappMessage =
                         trim(Or(body.whatsappMessage,
                                 Or(item.whatsappMessage, DEFAULT_WHATS_MESSAGE)))]
        media == fileMedia(files, nk)
    IN  IF Len(files) > 0
        THEN [item |-> Put(Put(Put(edited, "media", media),
                               "type", media[1].type), "url", media[1].url),
              store |-> unlinkMedia(st, item.media)]
        ELSE [item |-> edited, store |-> st]

\* app.put("/api/items/:id"); a path without an id matches no route
putItems(its, st, nid, nk, id, body) ==
    LET files == body.files
        uploaded == st \cup uploadedNames(files, nk)
        found == Find(its, id)
        index == CHOOSE i \in found : \A j \in found : i <= j
        put == putItem(its[index], uploaded, body, nk)
    IN  IF id = 0 THEN Outcome(its, st, nid, nk, Response(404, "noroute", <<>>))
        ELSE IF uploadTooLarge(files) THEN uploadError(its, st, nid, nk)
        ELSE IF found = {}
        THEN Outcome(its, uploaded, nid, nk + Len(files), Response(404, "error", <<>>))
        ELSE Outcome([its EXCEPT ![index] = put.item], put.store, nid,
                     nk + Len(files),
                     Response(200, "item", <<toItemResponse(put.item)>>))

\* app.delete("/api/items/:id"); a path without an id matches no route
deleteItems(its, st, nid, nk, id) ==
    LET found == Find(its, id)
        index == CHOOSE i \in found : \A j \in found : i <= j
        removed == normalizeItem(its[index])
        rest == [i \in 1..(Len(its) - 1) |-> IF i < index THEN its[i] ELSE its[i + 1]]
    IN  IF id = 0 THEN Outcome(its, st, nid, nk, Response(404, "noroute", <<>>))
        ELSE IF found = {}
        THEN Outcome(its, st, nid, nk, Response(404, "error", <<>>))
        ELSE Outcome(rest, unlinkMedia(st, removed.media), nid, nk,
                     Response(200, "ok", <<>>))

\* app.get("/api/items"); there is no route for GET /api/items/:id
getItems(its, st, nid, nk, id) ==
    IF id # 0 THEN Outcome(its, st, nid, nk, Response(404, "noroute", <<>>))
    ELSE Outcome(its, st, nid, nk,
                 Response(200, "list",
                          [i \in 1..Len(its) |-> toItemResponse(normalizeItem(its[i]))]))

\* a data file written before the media list existed: top-level url/type
LegacyItem ==
    [id |-> 1, title |-> <<"L">>, desc |-> <<"D">>, type |-> "video",
     url |-> <<"/uploads/", 1>>, filename |-> 1]

(* ============ hosted variants: common parts of the two handlers ======== *)
\* normalizeText: (value || "").toString().trim()
normalizeText(value) == trim(Or(value, <<>>))

\* parseMultipart rejects with FILE_TOO_LARGE when busboy hit the limit on a
\* file; a body that is not multipart/form-data is read with req.json()
parseMultipart(body) ==
    IF ~body.json /\ \E i \in 1..Len(body.files) : body.files[i].size > MAX_FILE_SIZE
    THEN "FILE_TOO_LARGE"
    ELSE "ok"
\* Array.isArray(fields.media): a multipart field is a string, never an array
isArrayMedia(body) == body.json /\ body.mediaIsArray

SeedRow(i, id) ==
    [id |-> id, title |-> <<"S">>, description |-> <<"T">>,
     whatsapp_message |-> DEFAULT_WHATS_MESSAGE,
     media |-> <<[type |-> "image", url |-> <<"imovel", i>>]>>]

ResponseRow(row, media) ==
    [id |-> row.id, title |-> row.title, desc |-> row.description,
     whatsappMessage |-> row.whatsapp_message, media |-> media]

(* ================= object-storage + SQL variant ("supa") =============== *)
\* ensureSeed: inserts the seed rows when the table is empty
ensureSeed(its, nid) ==
    IF Len(its) > 0 THEN [items |-> its, nextId |-> nid]
    ELSE [items |-> [i \in 1..NumSeed |-> SeedRow(i, nid + i - 1)],
          nextId |-> nid + NumSeed]

\* storeFiles that pushes each entry to the front of the media list
storeFiles_Reversed(files, k0) ==
    [i \in 1..Len(files) |->
        [type |-> MediaType(files[Len(files) + 1 - i].mimetype),
         path |-> k0 + Len(files) - i,
         contentType |-> files[Len(files) + 1 - i].mimetype]]

\* storeFiles: the i-th file is uploaded under the fresh path k0 + i - 1
storeFiles(files, k0) ==
    [i \in 1..Len(files) |->
        [type |-> MediaType(files[i].mimetype),
         path |-> k0 + i - 1,
         contentType |-> files[i].mimetype]]

\* removeStoredMedia that reads the blob variant's field name
removeStoredMedia_ByKey(st, media) ==
    st \ {media[i].key : i \in {j \in 1..Len(media) : Has(media[j], "key")}}

\* removeStoredMedia: removes the paths of the media list from the bucket
removeStoredMedia(st, media) ==
    st \ {media[i].path : i \in {j \in 1..Len(media) : Has(media[j], "path")}}

withPublicUrls(media) ==
    [i \in 1..Len(media) |->
        IF Has(media[i], "url") /\ media[i].url # <<>> THEN media[i]
        ELSE IF ~Has(media[i], "path") THEN media[i]
        ELSE Put(media[i], "url", <<"public", media[i].path>>)]

\* default handler, GET branch
supaGet(its0, st, nid0, nk, id) ==
    LET seeded == ensureSeed(its0, nid0)
        its == seeded.items
        nid == seeded.nextId
        found == Find(its, id)
        data == its[CHOOSE i \in found : TRUE]
    IN  IF id # 0
        THEN IF found = {}
             THEN Outcome(its, st, nid, nk, Response(404, "error", <<>>))
             ELSE Outcome(its, st, nid, nk,
                          Response(200, "item",
                                   <<ResponseRow(data, withPublicUrls(data.media))>>))
        ELSE Outcome(its, st, nid, nk,
                     Response(200, "list",
                              Reverse([i \in 1..Len(its) |->
                                  ResponseRow(its[i], withPublicUrls(its[i].media))])))

\* default handler, POST branch
supaPost(its0, st, nid0, nk, body) ==
    LET seeded == ensureSeed(its0, nid0)
        its == seeded.items
        nid == seeded.nextId
        files == body.files
        title == normalizeText(body.title)
        desc == normalizeText(body.desc)
        whatsappMessage == Or(normalizeText(body.whatsappMessage), DEFAULT_WHATS_MESSAGE)
        media == IF Len(files) > 0 THEN storeFiles(files, nk)
                 ELSE IF isArrayMedia(body) THEN body.media
                 ELSE <<>>
        stored == IF Len(files) > 0 THEN st \cup {nk + i - 1 : i \in 1..Len(files)}
                  ELSE st
        data == [id |-> nid, title |-> title, description |-> desc,
                 whatsapp_message |-> whatsappMessage, media |-> media]
    IN  IF parseMultipart(body) = "FILE_TOO_LARGE"
        THEN Outcome(its, st, nid, nk, Response(413, "error", <<>>))
        ELSE IF title = <<>> \/ desc = <<>>
        THEN Outcome(its, st, nid, nk, Response(400, "error", <<>>))
        ELSE IF Len(media) = 0
        THEN Outcome(its, stored, nid, nk + Len(files), Response(400, "error", <<>>))
        ELSE Outcome(Append(its, data), stored, nid + 1, nk + Len(files),
                     Response(201, "item",
                              <<ResponseRow(data, withPublicUrls(data.media))>>))

\* the media part of the PUT branch without the length test on fields.media
supaNextMedia_EmptyArray(current, st, body, nk) ==
    LET files == body.files
    IN  IF Len(files) > 0
        THEN [media |-> storeFiles(files, nk),
              store |-> removeStoredMedia(st, current.media)
                        \cup {nk + i - 1 : i \in 1..Len(files)}]
        ELSE IF isArrayMedia(body)
        THEN [media |-> body.media, store |-> st]
        ELSE [media |-> current.media, store |-> st]

\* the media part of the PUT branch: the next media list and the bucket
supaNextMedia(current, st, body, nk) ==
    LET files == body.files
        nextMedia == current.media
    IN  IF Len(files) > 0
        THEN [media |-> storeFiles(files, nk),
              store |-> removeStoredMedia(st, nextMedia)
                        \cup {nk + i - 1 : i \in 1..Len(files)}]
        ELSE IF isArrayMedia(body) /\ Len(body.media) > 0
        THEN [media |-> body.media, store |-> st]
        ELSE [media |-> nextMedia, store |-> st]

\* default handler, PUT branch
supaPut(its0, st, nid0, nk, id, body) ==
    LET seeded == ensureSeed(its0, nid0)
        its == seeded.items
        nid == seeded.nextId
        found == Find(its, id)
        index == CHOOSE i \in found : TRUE
        current == its[index]
        nextTitle == Or(normalizeText(body.title), current.title)
        nextDesc == Or(normalizeText(body.desc), current.description)
        nextMessage == Or(normalizeText(body.whatsappMessage),
                          Or(current.whatsapp_message, DEFAULT_WHATS_MESSAGE))
        next == supaNextMedia(current, st, body, nk)
        data == [id |-> current.id, title |-> nextTitle, description |-> nextDesc,
                 whatsapp_message |-> nextMessage, media |-> next.media]
    IN  IF id = 0 THEN Outcome(its, st, nid, nk, Response(400, "error", <<>>))
        ELSE IF parseMultipart(body) = "FILE_TOO_LARGE"
        THEN Outcome(its, st, nid, nk, Response(413, "error", <<>>))
        ELSE IF found = {}
        THEN Outcome(its, st, nid, nk, Response(404, "error", <<>>))
        ELSE Outcome([its EXCEPT ![index] = data], next.store, nid,
                     nk + Len(body.files),
                     Response(200, "item",
                              <<ResponseRow(data, withPublicUrls(data.media))>>))

\* default handler, DELETE branch
supaDelete(its0, st, nid0, nk, id) ==
    LET seeded == ensureSeed(its0, nid0)
        its == seeded.items
        nid == seeded.nextId
        found == Find(its, id)
        data == its[CHOOSE i \in found : TRUE]
    IN  IF id = 0 THEN Outcome(its, st, nid, nk, Response(400, "error", <<>>))
        ELSE Outcome(Remove(its, id),
                     IF found # {} THEN removeStoredMedia(st, data.media) ELSE st,
                     nid, nk, Response(200, "ok", <<>>))

(* ===================== blob store + SQL variant ("blob") =============== *)
\* seedIfEmpty: inserts the seed rows when the table is empty
seedIfEmpty(its, nid) ==
    IF Len(its) > 0 THEN [items |-> its, nextId |-> nid]
    ELSE [items |-> [i \in 1..NumSeed |-> SeedRow(i, nid + i - 1)],
          nextId |-> nid + NumSeed]

\* storeFiles: the i-th file is set under the fresh key k0 + i - 1
storeFilesBlob(files, k0) ==
    [i \in 1..Len(files) |->
        [type |-> MediaType(files[i].mimetype),
         key |-> k0 + i - 1,
         contentType |-> files[i].mimetype]]

withMediaUrls(media) ==
    [i \in 1..Len(media) |->
        IF Has(media[i], "url") /\ media[i].url # <<>> THEN media[i]
        ELSE IF ~Has(media[i], "key") THEN media[i]
        ELSE Put(media[i], "url", <<"/.netlify/functions/media/", media[i].key>>)]

\* the store.delete loop of the DELETE branch
deleteKeys(st, media) ==
    st \ {media[i].key : i \in {j \in 1..Len(media) : Has(media[j], "key")}}

\* default handler, GET branch
blobGet(its0, st, nid0, nk, id) ==
    LET seeded == seedIfEmpty(its0, nid0)
        its == seeded.items
        nid == seeded.nextId
        found == Find(its, id)
        item == its[CHOOSE i \in found : TRUE]
    IN  IF id # 0
        THEN IF found = {}
             THEN Outcome(its, st, nid, nk, Response(404, "error", <<>>))
             ELSE Outcome(its, st, nid, nk,
                          Response(200, "item",
                                   <<ResponseRow(item, withMediaUrls(item.media))>>))
        ELSE Outcome(its, st, nid, nk,
                     Response(200, "list",
                              Reverse([i \in 1..Len(its) |->
                                  ResponseRow(its[i], withMediaUrls(its[i].media))])))

\* default handler, POST branch
blobPost(its0, st, nid0, nk, body) ==
    LET seeded == seedIfEmpty(its0, nid0)
        its == seeded.items
        newId == seeded.nextId
        files == body.files
        title == normalizeText(body.title)
        desc == normalizeText(body.desc)
        whatsappMessage == Or(normalizeText(body.whatsappMessage), DEFAULT_WHATS_MESSAGE)
        media == IF Len(files) > 0 THEN storeFilesBlob(files, nk)
                 ELSE IF isArrayMedia(body) THEN body.media
                 ELSE <<>>
        stored == IF Len(files) > 0 THEN st \cup {nk + i - 1 : i \in 1..Len(files)}
                  ELSE st
        row == [id |-> newId, title |-> title, description |-> desc,
                whatsapp_message |-> whatsappMessage, media |-> media]
    IN  IF parseMultipart(body) = "FILE_TOO_LARGE"
        THEN Outcome(its, st, newId, nk, Response(413, "error", <<>>))
        ELSE IF title = <<>> \/ desc = <<>>
        THEN Outcome(its, st, newId, nk, Response(400, "error", <<>>))
        ELSE IF Len(media) = 0
        THEN Outcome(its, stored, newId, nk + Len(files), Response(400, "error", <<>>))
        ELSE Outcome(Append(its, row), stored, newId + 1, nk + Len(files),
                     Response(201, "item", <<ResponseRow(row, withMediaUrls(media))>>))

\* the media part of the PUT branch that takes fields.media whenever no
\* file is uploaded
blobNextMedia_DropMedia(current, st, body, nk) ==
    LET files == body.files
    IN  IF Len(files) > 0
        THEN [media |-> storeFilesBlob(files, nk),
              store |-> st \cup {nk + i - 1 : i \in 1..Len(files)}]
        ELSE [media |-> body.media, store |-> st]

\* the media part of the PUT branch: the next media list and the blob store
blobNextMedia(current, st, body, nk) ==
    LET files == body.files
        nextMedia == current.media
    IN  IF Len(files) > 0
        THEN [media |-> storeFilesBlob(files, nk),
              store |-> st \cup {nk + i - 1 : i \in 1..Len(files)}]
        ELSE IF isArrayMedia(body) /\ Len(body.media) > 0
        THEN [media |-> body.media, store |-> st]
        ELSE [media |-> nextMedia, store |-> st]

\* default handler, PUT branch
blobPut(its0, st, nid0, nk, id, body) ==
    LET seeded == seedIfEmpty(its0, nid0)
        its == seeded.items
        nid == seeded.nextId
        found == Find(its, id)
        index == CHOOSE i \in found : TRUE
        current == its[index]
        nextTitle == Or(normalizeText(body.title), current.title)
        nextDesc == Or(normalizeText(body.desc), current.description)
        nextMessage == Or(normalizeText(body.whatsappMessage),
                          Or(current.whatsapp_message, DEFAULT_WHATS_MESSAGE))
        next == blobNextMedia(current, st, body, nk)
        row == [id |-> current.id, title |-> nextTitle, description |-> nextDesc,
                whatsapp_message |-> nextMessage, media |-> next.media]
    IN  IF id = 0 THEN Outcome(its, st, nid, nk, Response(400, "error", <<>>))
        ELSE IF parseMultipart(body) = "FILE_TOO_LARGE"
        THEN Outcome(its, st, nid, nk, Response(413, "error", <<>>))
        ELSE IF found = {}
        THEN Outcome(its, st, nid, nk, Response(404, "error", <<>>))
        ELSE Outcome([its EXCEPT ![index] = row], next.store, nid,
                     nk + Len(body.files),
                     Response(200, "item", <<ResponseRow(row, withMediaUrls(next.media))>>))

\* default handler, DELETE branch
blobDelete(its0, st, nid0, nk, id) ==
    LET seeded == seedIfEmpty(its0, nid0)
        its == seeded.items
        nid == seeded.nextId
        found == Find(its, id)
        existing == its[CHOOSE i \in found : TRUE]
    IN  IF id = 0 THEN Outcome(its, st, nid, nk, Response(400, "error", <<>>))
        ELSE Outcome(Remove(its, id),
                     IF found # {} THEN deleteKeys(st, existing.media) ELSE st,
                     nid, nk, Response(200, "ok", <<>>))

(* ============================ state machine ============================ *)
NoRequest == [method |-> "NONE", id |-> 0, body |-> NoBody]
NoResponse == Response(0, "none", <<>>)
NoNorm == [phase |-> "off"]
\* no request in flight
NoCalls == <<>>

\* the file-backed server starts on an empty data file or on one that an
\* earlier version wrote; the hosted tables start empty
Init ==
    /\ variant \in {"file", "supa", "blob"}
    /\ \/ /\ items = <<>>
          /\ store = {}
       \/ /\ variant = "file"
          /\ items = <<LegacyItem>>
          /\ store = {1}
    /\ nextId = 2
    /\ nextKey = 2
    /\ req = NoRequest
    /\ res = NoResponse
    /\ preItems = items
    /\ preStore = store
    /\ deleted = {}
    /\ steps = 0
    /\ norm = NoNorm
    /\ calls = NoCalls

\* one request: the handler's outcome becomes the state
Handle(method, id, body, out) ==
    /\ steps < MaxSteps
    /\ steps' = steps + 1
    /\ req' = [method |-> method, id |-> id, body |-> body]
    /\ res' = out.res
    /\ preItems' = items
    /\ preStore' = store
    /\ items' = out.items
    /\ store' = out.store
    /\ nextId' = out.nextId
    /\ nextKey' = out.nextKey
    /\ deleted' = IF method = "DELETE" /\ out.res.status = 200 /\ Find(items, id) # {}
                  THEN deleted \cup {id} ELSE deleted
    /\ UNCHANGED <<variant, norm, calls>>

FileGet ==
    /\ variant = "file"
    /\ \E id \in TargetIds :
          Handle("GET", id, NoBody, getItems(items, store, nextId, nextKey, id))
FilePost ==
    /\ variant = "file"
    /\ \E body \in Bodies :
          Handle("POST", 0, body, postItems(items, store, nextId, nextKey, body))
FilePut ==
    /\ variant = "file"
    /\ \E id \in TargetIds, body \in Bodies :
          Handle("PUT", id, body, putItems(items, store, nextId, nextKey, id, body))
FileDelete ==
    /\ variant = "file"
    /\ \E id \in TargetIds :
          Handle("DELETE", id, NoBody, deleteItems(items, store, nextId, nextKey, id))

SupaGet ==
    /\ variant = "supa"
    /\ \E id \in TargetIds :
          Handle("GET", id, NoBody, supaGet(items, store, nextId, nextKey, id))
SupaPost ==
    /\ variant = "supa"
    /\ \E body \in Bodies :
          Handle("POST", 0, body, supaPost(items, store, nextId, nextKey, body))
SupaPut ==
    /\ variant = "supa"
    /\ \E id \in TargetIds, body \in Bodies :
          Handle("PUT", id, body, supaPut(items, store, nextId, nextKey, id, body))
SupaDelete ==
    /\ variant = "supa"
    /\ \E id \in TargetIds :
          Handle("DELETE", id, NoBody, supaDelete(items, store, nextId, nextKey, id))

BlobGet ==
    /\ variant = "blob"
    /\ \E id \in TargetIds :
          Handle("GET", id, NoBody, blobGet(items, store, nextId, nextKey, id))
BlobPost ==
    /\ variant = "blob"
    /\ \E body \in Bodies :
          Handle("POST", 0, body, blobPost(items, store, nextId, nextKey, body))
BlobPut ==
    /\ variant = "blob"
    /\ \E id \in TargetIds, body \in Bodies :
          Handle("PUT", id, body, blobPut(items, store, nextId, nextKey, id, body))
BlobDelete ==
    /\ variant = "blob"
    /\ \E id \in TargetIds :
          Handle("DELETE", id, NoBody, blobDelete(items, store, nextId, nextKey, id))

Next ==
    \/ FileGet \/ FilePost \/ FilePut \/ FileDelete
    \/ SupaGet \/ SupaPost \/ SupaPut \/ SupaDelete
    \/ BlobGet \/ BlobPost \/ BlobPut \/ BlobDelete

Spec == Init /\ [][Next]_vars

(* ============== normalizeItem on arbitrary stored records ============== *)
EmptyRecord == [x \in {} |-> x]
Optional(field, values) == {EmptyRecord} \cup {field :> v : v \in values}
\* raw records: media missing, empty or non-empty; legacy url/type/filename
\* present or not; whatsappMessage missing, empty, non-string or a string
RawItems ==
    { [id |-> 1, title |-> <<"L">>, desc |-> <<"D">>] @@ m @@ u @@ t @@ f @@ w :
        m \in Optional("media", {<<>>, <<[type |-> "video", url |-> <<"/uploads/", 2>>,
                                         filename |-> 2]>>}),
        u \in Optional("url", {<<>>, <<"/uploads/", 1>>}),
        t \in Optional("type", {"", "video"}),
        f \in Optional("filename", {1}),
        w \in Optional("whatsappMessage", {<<>>, NotAString, <<"c">>}) }

InitNorm ==
    /\ variant = "file"
    /\ items = <<>>
    /\ store = {}
    /\ nextId = 2
    /\ nextKey = 2
    /\ req = NoRequest
    /\ res = NoResponse
    /\ preItems = <<>>
    /\ preStore = {}
    /\ deleted = {}
    /\ steps = 0
    /\ calls = NoCalls
    /\ \E r \in RawItems : norm = [phase |-> "raw", raw |-> r, once |-> r, twice |-> r]

NormalizeOnce ==
    /\ norm.phase = "raw"
    /\ norm' = [norm EXCEPT !.phase = "once", !.once = normalizeItem(norm.raw)]
    /\ UNCHANGED <<variant, items, store, nextId, nextKey, req, res,
                   preItems, preStore, deleted, steps, calls>>

NormalizeTwice ==
    /\ norm.phase = "once"
    /\ norm' = [norm EXCEPT !.phase = "twice", !.twice = normalizeItem(norm.once)]
    /\ UNCHANGED <<variant, items, store, nextId, nextKey, req, res,
                   preItems, preStore, deleted, steps, calls>>

NextNorm == NormalizeOnce \/ NormalizeTwice

SpecNorm == InitNorm /\ [][NextNorm]_vars

(* =============================== claims ================================ *)
\* the field of a media entry that holds the storage key
KeyField ==
    CASE variant = "file" -> "filename"
      [] variant = "supa" -> "path"
      [] variant = "blob" -> "key"
\* the blobs a media list references
BlobKeys(media) ==
    {media[i][KeyField] : i \in {j \in 1..Len(media) : Has(media[j], KeyField)}}
\* the media list of a stored record (materialized from the legacy fields
\* in the file-backed variant)
MediaOf(item) == IF variant = "file" THEN normalizeItem(item).media ELSE item.media
ItemById(its, id) == its[CHOOSE i \in Find(its, id) : TRUE]
Existing == req.id # 0 /\ Find(preItems, req.id) # {}
Ceiling == IF variant = "file" THEN FILE_SIZE_LIMIT ELSE MAX_FILE_SIZE
NoDescriptors == ~(req.body.json /\ req.body.mediaIsArray /\ Len(req.body.media) > 0)
IsSeedTable(its) ==
    /\ Len(its) = NumSeed
    /\ \A i \in 1..Len(its) : its[i] = SeedRow(i, its[i].id)

\* C1: a successful PUT on an existing item with at least one new file
\* deletes from the Media Store exactly the blobs of the previous media
\* list, none of which remains, and the media list becomes exactly the
\* newly stored files.
C1_PutReplacesBlobs ==
    (req.method = "PUT" /\ res.status = 200 /\ Existing /\ Len(req.body.files) > 0) =>
        LET old == MediaOf(ItemById(preItems, req.id))
            new == MediaOf(ItemById(items, req.id))
        IN  /\ preStore \ store = BlobKeys(old) \cap preStore
            /\ BlobKeys(old) \cap store = {}
            /\ Len(new) = Len(req.body.files)
            /\ BlobKeys(new) = store \ preStore
            /\ Cardinality(store \ preStore) = Len(req.body.files)

\* C2: a DELETE of an existing id removes the record and every blob its
\* media list referenced; the id stays gone, a later GET of it answers 404
\* and no later collection contains it.
C2_DeleteRemovesItemAndBlobs ==
    /\ (req.method = "DELETE" /\ Existing) =>
          /\ res.status = 200
          /\ Find(items, req.id) = {}
          /\ BlobKeys(MediaOf(ItemById(preItems, req.id))) \cap store = {}
    /\ \A id \in deleted : Find(items, id) = {}
    /\ (req.method = "GET" /\ req.id \in deleted) => res.status = 404
    /\ (req.method = "GET" /\ req.id = 0) =>
          \A i \in 1..Len(res.body) : res.body[i].id \notin deleted
C2_Witness ==
    /\ req.method = "GET" /\ req.id \in deleted /\ res.status = 404
    /\ variant # "file" /\ nextKey > 2 /\ store = {}

\* C3: a DELETE whose id matches no persisted item responds 404 and leaves
\* the records and the Media Store unchanged.
C3_DeleteUnknownIs404 ==
    (req.method = "DELETE" /\ req.id # 0 /\ Find(preItems, req.id) = {}) =>
        /\ res.status = 404
        /\ items = preItems
        /\ store = preStore

\* C4: a PUT on an existing item with no new file and no non-empty media
\* descriptor list leaves the item's media list and the Media Store as
\* they were, whatever text fields are supplied.
C4_PutWithoutFilesKeepsMedia ==
    (req.method = "PUT" /\ Existing /\ Len(req.body.files) = 0 /\ NoDescriptors) =>
        /\ res.status = 200
        /\ MediaOf(ItemById(items, req.id)) = MediaOf(ItemById(preItems, req.id))
        /\ store = preStore
C4_Witness ==
    /\ req.method = "PUT" /\ Existing /\ Len(req.body.files) = 0 /\ NoDescriptors
    /\ req.body.title # <<>>
    /\ items # preItems
    /\ BlobKeys(MediaOf(ItemById(preItems, req.id))) # {}

\* C5: a request carrying a file larger than the ceiling is answered 413
\* and the persisted items are the same before and after it.
C5_OversizeIs413 ==
    (/\ req.method \in {"POST", "PUT"}
     /\ req.method = "PUT" => req.id # 0
     /\ \E i \in 1..Len(req.body.files) : req.body.files[i].size > Ceiling) =>
        /\ res.status = 413
        /\ items = preItems

\* C6 as stated: a POST with zero files and no (or an empty) media
\* descriptor list is answered 400, persists no item record and stores
\* no blob.
C6_PostWithoutMediaPersistsNothing ==
    (req.method = "POST" /\ Len(req.body.files) = 0 /\ NoDescriptors) =>
        /\ res.status = 400
        /\ items = preItems
        /\ store = preStore
\* C6 as amended: such a POST is answered 400, stores no blob and persists
\* no record of its own: the records are as before, except that a hosted
\* variant whose table was empty now holds exactly the seed rows.
C6_PostWithoutMediaIs400 ==
    (req.method = "POST" /\ Len(req.body.files) = 0 /\ NoDescriptors) =>
        /\ res.status = 400
        /\ store = preStore
        /\ \/ items = preItems
           \/ variant # "file" /\ preItems = <<>> /\ IsSeedTable(items)
C6_Witness ==
    /\ req.method = "POST" /\ Len(req.body.files) = 0 /\ NoDescriptors
    /\ req.body.title # <<>> /\ req.body.mediaIsArray
    /\ res.status = 400
    /\ preItems # <<>>

\* C7: every persisted item has a non-empty media list.
C7_MediaNeverEmpty ==
    \A i \in 1..Len(items) : Len(MediaOf(items[i])) > 0
C7_Witness ==
    /\ req.method = "PUT" /\ res.status = 200 /\ req.body.mediaIsArray
    /\ Len(items) >= 2

\* C8: every media entry of a JSON response to GET, POST and PUT has only
\* the fields type and url; no storage key is a field of a response.
C8_ResponsesHideStorageKeys ==
    res.kind \in {"item", "list"} =>
        \A i \in 1..Len(res.body) : \A j \in 1..Len(res.body[i].media) :
            DOMAIN res.body[i].media[j] \subseteq {"type", "url"}

\* C9: a successful POST with N >= 1 uploaded files persists an item whose
\* media list has N entries in upload order, the i-th of type "video" when
\* the i-th MIME type starts with "video/" and "image" otherwise, and adds
\* exactly N blobs to the Media Store.
C9_PostStoresEveryFile ==
    (req.method = "POST" /\ res.status \in {200, 201} /\ Len(req.body.files) >= 1) =>
        LET files == req.body.files
            item == items[Len(items)]
            media == MediaOf(item)
        IN  /\ Find(preItems, item.id) = {}
            /\ Len(media) = Len(files)
            /\ \A i \in 1..Len(files) :
                  /\ media[i].type =
                        IF files[i].mimetype[1] = "video" THEN "video" ELSE "image"
                  /\ Has(media[i], KeyField)
                  /\ \A j \in 1..Len(files) :
                        i < j => media[i][KeyField] < media[j][KeyField]
            /\ preStore \subseteq store
            /\ store \ preStore = BlobKeys(media)
            /\ Cardinality(store \ preStore) = Len(files)
C9_Witness ==
    /\ req.method = "POST" /\ res.status \in {200, 201}
    /\ Len(req.body.files) = 2
    /\ preStore # {}
    /\ variant = "blob"

\* C10: normalizeItem is idempotent: normalizing a normalized record
\* changes nothing.
C10_NormalizeIdempotent ==
    norm.phase = "twice" => norm.twice = norm.once
C10_Witness ==
    /\ norm.phase = "twice"
    /\ ~Has(norm.raw, "media") /\ Has(norm.raw, "url") /\ norm.raw.url # <<>>
    /\ Has(norm.raw, "whatsappMessage") /\ norm.raw.whatsappMessage = NotAString
    /\ norm.once # norm.raw


(* ================ requests whose blob removal fails ==================== *)
\* the error-handling middleware / the catch of the default handler on an
\* error that is not a MulterError
serverError(its, st, nid, nk) ==
    Outcome(its, st, nid, nk, Response(500, "error", <<>>))

\* app.put when fs.unlinkSync throws: the loop stops at the first old file
\* that exists, writeItems is not reached, the uploaded files stay
putItemsUnlinkFails(its, st, nid, nk, id, body) ==
    LET files == body.files
        found == Find(its, id)
        index == CHOOSE i \in found : \A j \in found : i <= j
        old == normalizeItem(its[index]).media
        unlinks == /\ id # 0 /\ ~uploadTooLarge(files) /\ found # {}
                   /\ Len(files) > 0 /\ unlinkMedia(st, old) # st
    IN  IF unlinks
        THEN serverError(its, st \cup uploadedNames(files, nk), nid, nk + Len(files))
        ELSE putItems(its, st, nid, nk, id, body)

\* app.delete when fs.unlinkSync throws: writeItems is not reached
deleteItemsUnlinkFails(its, st, nid, nk, id) ==
    LET found == Find(its, id)
        index == CHOOSE i \in found : \A j \in found : i <= j
        old == normalizeItem(its[index]).media
        unlinks == id # 0 /\ found # {} /\ unlinkMedia(st, old) # st
    IN  IF unlinks THEN serverError(its, st, nid, nk)
        ELSE deleteItems(its, st, nid, nk, id)

\* PUT branch when storage.remove fails: it resolves to {error}, which
\* removeStoredMedia drops; nothing is removed and the branch goes on
supaPutRemoveFails(its0, st, nid0, nk, id, body) ==
    LET normal == supaPut(its0, st, nid0, nk, id, body)
    IN  [normal EXCEPT !.store = @ \cup st]

\* DELETE branch when storage.remove fails
supaDeleteRemoveFails(its0, st, nid0, nk, id) ==
    LET normal == supaDelete(its0, st, nid0, nk, id)
    IN  [normal EXCEPT !.store = @ \cup st]

\* DELETE branch when store.delete rejects: the catch answers 500 and the
\* SQL DELETE is not reached
blobDeleteFails(its0, st, nid0, nk, id) ==
    LET seeded == seedIfEmpty(its0, nid0)
        its == seeded.items
        found == Find(its, id)
        existing == its[CHOOSE i \in found : TRUE]
        deletes == id # 0 /\ found # {} /\ deleteKeys(st, existing.media) # st
    IN  IF deletes THEN serverError(its, st, seeded.nextId, nk)
        ELSE blobDelete(its0, st, nid0, nk, id)

\* the target of the request owns a blob that the handler goes to remove
OwnsBlob(id, field) ==
    /\ id # 0
    /\ \E i \in Find(items, id) :
          LET media == IF variant = "file" THEN normalizeItem(items[i]).media
                       ELSE items[i].media
          IN  \E j \in 1..Len(media) : Has(media[j], field) /\ media[j][field] \in store

\* one request during which every removal of a blob fails
HandleFault(method, id, body, out) ==
    /\ steps < MaxSteps
    /\ steps' = steps + 1
    /\ req' = [method |-> method, id |-> id, body |-> body, removeFails |-> TRUE]
    /\ res' = out.res
    /\ preItems' = items
    /\ preStore' = store
    /\ items' = out.items
    /\ store' = out.store
    /\ nextId' = out.nextId
    /\ nextKey' = out.nextKey
    /\ UNCHANGED <<variant, norm, calls, deleted>>

FaultFilePut ==
    /\ variant = "file"
    /\ \E id \in TargetIds, body \in Bodies :
          /\ OwnsBlob(id, "filename") /\ Len(body.files) > 0 /\ ~uploadTooLarge(body.files)
          /\ HandleFault("PUT", id, body,
                         putItemsUnlinkFails(items, store, nextId, nextKey, id, body))
FaultFileDelete ==
    /\ variant = "file"
    /\ \E id \in TargetIds :
          /\ OwnsBlob(id, "filename")
          /\ HandleFault("DELETE", id, NoBody,
                         deleteItemsUnlinkFails(items, store, nextId, nextKey, id))
FaultSupaPut ==
    /\ variant = "supa"
    /\ \E id \in TargetIds, body \in Bodies :
          /\ OwnsBlob(id, "path") /\ Len(body.files) > 0
          /\ parseMultipart(body) = "ok"
          /\ HandleFault("PUT", id, body,
                         supaPutRemoveFails(items, store, nextId, nextKey, id, body))
FaultSupaDelete ==
    /\ variant = "supa"
    /\ \E id \in TargetIds :
          /\ OwnsBlob(id, "path")
          /\ HandleFault("DELETE", id, NoBody,
                         supaDeleteRemoveFails(items, store, nextId, nextKey, id))
FaultBlobDelete ==
    /\ variant = "blob"
    /\ \E id \in TargetIds :
          /\ OwnsBlob(id, "key")
          /\ HandleFault("DELETE", id, NoBody,
                         blobDeleteFails(items, store, nextId, nextKey, id))

NextFault ==
    \/ Next
    \/ FaultFilePut \/ FaultFileDelete
    \/ FaultSupaPut \/ FaultSupaDelete
    \/ FaultBlobDelete

SpecFault == Init /\ [][NextFault]_vars

\* C11: when removing an old blob fails during a DELETE or during a PUT
\* that replaces media, the request still answers 200 and the record is
\* deleted (DELETE) or updated to the new media list (PUT).
C11_RemovalFailureIsBestEffort ==
    Has(req, "removeFails") =>
        /\ res.status = 200
        /\ req.method = "DELETE" => Find(items, req.id) = {}
        /\ req.method = "PUT" =>
              /\ Find(items, req.id) # {}
              /\ BlobKeys(MediaOf(ItemById(items, req.id))) = store \ preStore

(* ============ overlapping requests, file-backed variant ================ *)
\* Two connections.  A request arrives and multer streams its upload
\* (the only asynchronous part of a route); its route callback then runs
\* to the response in one turn of the event loop: it uses fs.readFileSync
\* and fs.writeFileSync and never awaits.
Procs == {1, 2}
Mutating == {"POST", "PUT", "DELETE"}
Idle == [phase |-> "idle"]

\* the route callback working on the content the data file had when the
\* request arrived
handlerItems_AtArrival(p) == calls[p].arrival
\* const items = readItems() of the route callbacks: the content of the
\* data file at the moment the callback runs
handlerItems(p) == items

InitFileConc ==
    /\ variant = "file"
    /\ items \in {<<>>, <<LegacyItem>>}
    /\ store = IF items = <<>> THEN {} ELSE {1}
    /\ nextId = 2
    /\ nextKey = 2
    /\ req = NoRequest
    /\ res = NoResponse
    /\ preItems = items
    /\ preStore = store
    /\ deleted = {}
    /\ steps = 0
    /\ norm = NoNorm
    /\ calls = [p \in Procs |-> Idle]

\* the request of connection p arrives; multer picks the names of its files
Arrive(p) ==
    /\ calls[p].phase = "idle"
    /\ \E method \in Mutating, id \in TargetIds, body \in Bodies :
          /\ method = "POST" => id = 0
          /\ method = "DELETE" => body = NoBody
          /\ calls' = [calls EXCEPT ![p] =
                          [phase |-> "upload", method |-> method, id |-> id,
                           body |-> body, k0 |-> nextKey, arrival |-> items,
                           overlaps |-> \E q \in Procs : calls[q].phase = "upload"]]
          /\ nextKey' = nextKey + Len(body.files)
    /\ UNCHANGED <<variant, items, store, nextId, req, res, preItems, preStore,
                   deleted, steps, norm>>

\* the route callback of connection p, from readItems to the response
routeCallback(p, its) ==
    LET c == calls[p]
    IN  IF c.method = "POST" THEN postItems(its, store, nextId, c.k0, c.body)
        ELSE IF c.method = "PUT" THEN putItems(its, store, nextId, c.k0, c.id, c.body)
        ELSE deleteItems(its, store, nextId, c.k0, c.id)

\* the upload of connection p is complete and its route callback runs
Respond(p) ==
    /\ calls[p].phase = "upload"
    /\ LET out == routeCallback(p, handlerItems(p))
       IN  /\ items' = out.items
           /\ store' = out.store
           /\ nextId' = out.nextId
           /\ res' = out.res
           /\ req' = [method |-> calls[p].method, id |-> calls[p].id,
                      body |-> calls[p].body]
           /\ preItems' = items
           /\ preStore' = store
           /\ calls' = [calls EXCEPT ![p] =
                           [phase |-> "done", method |-> calls[p].method,
                            overlaps |-> calls[p].overlaps,
                            status |-> out.res.status,
                            read |-> handlerItems(p), before |-> items,
                            wrote |-> out.items,
                            last |-> \E q \in Procs : calls[q].phase = "done"]]
    /\ UNCHANGED <<variant, nextKey, deleted, steps, norm>>

NextFileConc == \E p \in Procs : Arrive(p) \/ Respond(p)

SpecFileConc == InitFileConc /\ [][NextFileConc]_vars

\* both requests were answered and they overlapped: the second arrived
\* while the first was still uploading
BothAnswered ==
    /\ variant = "file"
    /\ calls # NoCalls
    /\ \A p \in Procs : calls[p].phase = "done"
    /\ \E p \in Procs : calls[p].overlaps
\* request p rewrote the data file with a content that differs from the one
\* it found
Updated(p) == calls[p].status = 200 /\ calls[p].wrote # calls[p].before
\* the update of p is lost: q rewrote the data file after p from a content
\* that did not have what p wrote
LostUpdate(p, q) ==
    /\ p # q /\ calls[q].last
    /\ Updated(p) /\ calls[q].status = 200
    /\ calls[q].read # calls[p].wrote

\* C12 as stated: two overlapping mutating requests of the file-backed
\* variant interleave between one request's read of the data file and its
\* rewrite, and the update of the request answered first is overwritten
\* and lost.  Stated for the run in which a window between read and
\* rewrite has to show: both requests arrived before either was answered
\* and both rewrote the file.
C12_OverlapLosesUpdate ==
    (BothAnswered /\ \A p \in Procs : Updated(p)) =>
        \E p, q \in Procs : LostUpdate(p, q)

\* C12 amended: overlapping mutating requests of the file-backed variant
\* never lose an update: every route callback reads the data file and
\* rewrites it in one turn, so the request answered last has read what the
\* request answered first wrote.
C12_NoLostUpdate ==
    BothAnswered => \A p, q \in Procs : ~LostUpdate(p, q)

\* two overlapping requests, both answered 200, both changed the data file
C12_Witness ==
    /\ BothAnswered
    /\ \A p \in Procs : Updated(p)
    /\ \E p, q \in Procs : p # q /\ calls[q].last /\ calls[q].read = calls[p].wrote

(* ============ requests with empty and whitespace-only text ============= *)
\* one text field at a time is missing, whitespace-only or padded
FullText == [title |-> <<"a">>, desc |-> <<"b">>, whatsappMessage |-> <<"c">>]
TextFields == {"title", "desc", "whatsappMessage"}
TextValues == {<<>>, <<" ">>, <<" ", "x">>}
TextEdits ==
    {FullText} \cup {[FullText EXCEPT ![f] = v] : f \in TextFields, v \in TextValues}
         \cup {[f \in TextFields |-> <<" ">>]}
\* a multipart body with one image, or a JSON body with one descriptor
TextPayloads ==
    { [json |-> FALSE, files |-> <<Img(1)>>, mediaIsArray |-> FALSE, media |-> <<>>],
      [json |-> FALSE, files |-> <<>>, mediaIsArray |-> FALSE, media |-> <<>>],
      [json |-> TRUE, files |-> <<>>, mediaIsArray |-> TRUE,
       media |-> <<Descriptor>>] }
TextBodies == { t @@ p : t \in TextEdits, p \in TextPayloads }

TextPost ==
    \E body \in TextBodies :
        Handle("POST", 0, body,
               IF variant = "file" THEN postItems(items, store, nextId, nextKey, body)
               ELSE IF variant = "supa"
               THEN supaPost(items, store, nextId, nextKey, body)
               ELSE blobPost(items, store, nextId, nextKey, body))
TextPut ==
    \E id \in TargetIds, body \in TextBodies :
        Handle("PUT", id, body,
               IF variant = "file"
               THEN putItems(items, store, nextId, nextKey, id, body)
               ELSE IF variant = "supa"
               THEN supaPut(items, store, nextId, nextKey, id, body)
               ELSE blobPut(items, store, nextId, nextKey, id, body))

NextText == TextPost \/ TextPut

SpecText == Init /\ [][NextText]_vars

\* the three text fields of a stored record, of either shape
TextOf(row) ==
    IF Has(row, "description")
    THEN [title |-> row.title, desc |-> row.description,
          whatsappMessage |-> row.whatsapp_message]
    ELSE [f \in TextFields |-> IF Has(row, f) THEN row[f] ELSE <<>>]

\* what C13 says a PUT stores in field f of an item whose text was prev
SuppliedOrPrevious(f, prev) ==
    IF trim(req.body[f]) # <<>> THEN trim(req.body[f])
    ELSE IF f = "whatsappMessage" THEN Or(prev[f], DEFAULT_WHATS_MESSAGE)
    ELSE prev[f]

\* C13: after a PUT answered 200, each of title, description and
\* whatsappMessage holds the supplied value when that is non-empty after
\* trimming and the item's previous value otherwise (whatsappMessage: the
\* default when the previous value is empty too); a whitespace-only value
\* never replaces a non-empty one.
C13_PutKeepsFieldOnBlankInput ==
    (req.method = "PUT" /\ res.status = 200 /\ Find(preItems, req.id) # {}) =>
        \A f \in TextFields :
            TextOf(ItemById(items, req.id))[f] =
                SuppliedOrPrevious(f, TextOf(ItemById(preItems, req.id)))

\* the records of items whose id was not in use before the request
Persisted == {i \in 1..Len(items) : Find(preItems, items[i].id) = {}}
Blank(body) == trim(body.title) = <<>> \/ trim(body.desc) = <<>>

\* C14: every item persisted by a POST has a title and a description that
\* are non-empty after trimming: a hosted variant answers 400 and stores
\* no blob when either is empty after trimming, the file-backed variant
\* stores its default title or description in place of an empty one.
C14_PostedTextNeverBlank ==
    req.method = "POST" =>
        /\ \A i \in Persisted :
              /\ trim(TextOf(items[i]).title) # <<>>
              /\ trim(TextOf(items[i]).desc) # <<>>
        /\ (variant # "file" /\ Blank(req.body)) =>
              res.status = 400 /\ store = preStore
        /\ (variant = "file" /\ res.status = 200) =>
              \A i \in Persisted :
                 /\ trim(req.body.title) = <<>> => items[i].title = trim(DEFAULT_TITLE)
                 /\ trim(req.body.desc) = <<>> => items[i].desc = trim(DEFAULT_DESC)

\* C15: a request answered 400, 404 or 413 leaves the item records and the
\* blobs of the Media Store exactly as they were before it; in particular
\* a PUT with uploaded files to an unknown id adds no blob.
C15_RejectedRequestChangesNothing ==
    res.status \in {400, 404, 413} => items = preItems /\ store = preStore

(* ======== overlapping PUT requests, object-storage + SQL variant ======= *)
\* The PUT branch awaits the select of the current row, the removal of
\* the old objects, the upload of the new ones and the update of the row;
\* another invocation of the function may run between any two of them.
InitSupaConc ==
    /\ variant = "supa"
    /\ items = <<>>
    /\ store = {}
    /\ nextId = 2
    /\ nextKey = 2
    /\ req = NoRequest
    /\ res = NoResponse
    /\ preItems = items
    /\ preStore = store
    /\ deleted = {}
    /\ steps = 0
    /\ norm = NoNorm
    /\ calls = [p \in Procs |-> Idle]

\* a POST handled while no PUT is in flight
ConcPost ==
    /\ \A p \in Procs : calls[p].phase = "idle"
    /\ \E body \in Bodies :
          Handle("POST", 0, body, supaPost(items, store, nextId, nextKey, body))

\* a PUT with new files arrives: ensureSeed and parseMultipart are done
PutParsed(p) ==
    /\ calls[p].phase = "idle"
    /\ items # <<>>
    /\ \E id \in TargetIds \ {0}, body \in Bodies :
          /\ Len(body.files) > 0
          /\ parseMultipart(body) = "ok"
          /\ calls' = [calls EXCEPT ![p] = [phase |-> "parsed", id |-> id, body |-> body]]
    /\ UNCHANGED <<variant, items, store, nextId, nextKey, req, res, preItems,
                   preStore, deleted, steps, norm>>

\* the response of invocation p
Answer(p, status) ==
    /\ req' = [method |-> "PUT", id |-> calls[p].id, body |-> calls[p].body]
    /\ res' = Response(status, IF status = 200 THEN "item" ELSE "error", <<>>)
    /\ calls' = [calls EXCEPT ![p] =
                    [phase |-> "done", id |-> calls[p].id, status |-> status,
                     last |-> \E q \in Procs : calls[q].phase = "done"]]

\* select ... .eq("id", id).maybeSingle(): the current row, or 404
ReadCurrent(p) ==
    /\ calls[p].phase = "parsed"
    /\ IF Find(items, calls[p].id) = {}
       THEN Answer(p, 404)
       ELSE /\ calls' = [calls EXCEPT ![p] =
                            [phase |-> "read", id |-> calls[p].id,
                             body |-> calls[p].body,
                             current |-> ItemById(items, calls[p].id)]]
            /\ UNCHANGED <<req, res>>
    /\ UNCHANGED <<variant, items, store, nextId, nextKey, preItems, preStore,
                   deleted, steps, norm>>

\* await removeStoredMedia(supabase, bucket, nextMedia)
RemoveOld(p) ==
    /\ calls[p].phase = "read"
    /\ store' = removeStoredMedia(store, calls[p].current.media)
    /\ calls' = [calls EXCEPT ![p].phase = "removed"]
    /\ UNCHANGED <<variant, items, nextId, nextKey, req, res, preItems, preStore,
                   deleted, steps, norm>>

\* nextMedia = await storeFiles(supabase, bucket, files, current.id)
StoreNew(p) ==
    /\ calls[p].phase = "removed"
    /\ store' = store \cup {nextKey + i - 1 : i \in 1..Len(calls[p].body.files)}
    /\ nextKey' = nextKey + Len(calls[p].body.files)
    /\ calls' = [calls EXCEPT ![p] =
                    [phase |-> "stored", id |-> calls[p].id, body |-> calls[p].body,
                     current |-> calls[p].current,
                     nextMedia |-> storeFiles(calls[p].body.files, nextKey)]]
    /\ UNCHANGED <<variant, items, nextId, req, res, preItems, preStore,
                   deleted, steps, norm>>

\* update({...}).eq("id", id).select().single(), then the response
UpdateRecord(p) ==
    /\ calls[p].phase = "stored"
    /\ LET c == calls[p]
           current == c.current
           data == [id |-> current.id,
                    title |-> Or(normalizeText(c.body.title), current.title),
                    description |-> Or(normalizeText(c.body.desc), current.description),
                    whatsapp_message |->
                        Or(normalizeText(c.body.whatsappMessage),
                           Or(current.whatsapp_message, DEFAULT_WHATS_MESSAGE)),
                    media |-> c.nextMedia]
           index == CHOOSE i \in Find(items, c.id) : TRUE
       IN  /\ preItems' = items
           /\ preStore' = store
           /\ items' = [items EXCEPT ![index] = data]
           /\ Answer(p, 200)
    /\ UNCHANGED <<variant, store, nextId, nextKey, deleted, steps, norm>>

NextSupaConc ==
    \/ ConcPost
    \/ \E p \in Procs :
          PutParsed(p) \/ ReadCurrent(p) \/ RemoveOld(p) \/ StoreNew(p) \/ UpdateRecord(p)

SpecSupaConc == InitSupaConc /\ [][NextSupaConc]_vars

\* the objects that the media lists of the records refer to
Referenced == UNION {BlobKeys(MediaOf(items[i])) : i \in 1..Len(items)}
\* both PUT requests were answered 200 and addressed the same item
BothPutSameItem ==
    /\ variant = "supa"
    /\ calls # NoCalls
    /\ \A p \in Procs : calls[p].phase = "done" /\ calls[p].status = 200
    /\ \A p, q \in Procs : calls[p].id = calls[q].id

\* C16: after two concurrent PUT requests with new files on the same item
\* have both completed, the bucket holds exactly the objects that the
\* media lists of the records refer to: no object stored by the losing
\* request is left unreferenced and no referenced object is missing.
C16_ConcurrentPutsLeaveNoOrphan ==
    BothPutSameItem => store = Referenced

====
